---- MODULE Spec2Model ----
(***************************************************************************)
(* Leave-management core of app.py: the two tables of the SQLite store    *)
(* (employees, leave_requests) and the operations add_employee,           *)
(* apply_leave and update_leave_status.                                    *)
(*                                                                         *)
(* Spec      the operations executed one at a time (each call a whole       *)
(*           handler, from get_conn() to the commit or rollback of          *)
(*           "with conn").                                                  *)
(* SpecConc  the same operations called from several sessions, each on its  *)
(*           own connection, interleaved statement by statement.            *)
(***************************************************************************)
EXTENDS Integers, Sequences, FiniteSets, TLC

VARIABLES employees, leave_requests, pc, loc

vars == <<employees, leave_requests, pc, loc>>

(***************************************************************************)
(* Bounds of the model.                                                    *)
(***************************************************************************)
\* rows the leave_requests table may hold
MaxRequests == 2
\* days per month of the model's calendar (isoformat renders month and day)
MonthLen == 2

\* the calendar days a caller may pass
Dates == 1..5

\* initial balances a caller passes to add_employee; the function takes any
\* integer (int(leave_balance)), the column has no CHECK constraint
InitialBalances == {-1, 2}

\* emails a caller passes to add_employee; email is UNIQUE, so the employees
\* table holds at most one row for each
Emails == {"a@x", "b@x"}

\* joining dates a caller passes to add_employee
JoiningDates == {3}

\* new_status is a free string of update_leave_status
NewStatuses == {"APPROVED", "REJECTED", "CANCELLED"}

\* ids a caller may pass
EmployeeIds == 1..Cardinality(Emails)
LeaveIds == 1..MaxRequests

(***************************************************************************)
(* Dates. A date is its day ordinal; the store holds its ISO text, which   *)
(* SQLite compares as TEXT, field by field from the left (fixed width,     *)
(* zero padded): here the pair <<month, day>>.                             *)
(***************************************************************************)
isoformat(d) == <<((d - 1) \div MonthLen) + 1, ((d - 1) % MonthLen) + 1>>

fromisoformat(t) == (t[1] - 1) * MonthLen + t[2]

\* TEXT comparison a <= b of two ISO dates
TextLE(a, b) == a[1] < b[1] \/ (a[1] = b[1] /\ a[2] <= b[2])

\* days_inclusive without the "+ 1": the span counted exclusive of its last day
days_inclusive_exclusive(start, end) == end - start

\* (end - start).days + 1
days_inclusive(start, end) == (end - start) + 1

(***************************************************************************)
(* The store. employees and leave_requests are the two tables, a row's id  *)
(* (INTEGER PRIMARY KEY AUTOINCREMENT, no row is ever deleted by the core) *)
(* is its position in the sequence.                                        *)
(*   employees[i]      = [email, joining_date, leave_balance]              *)
(*   leave_requests[i] = [employee_id, start_date, end_date, status]       *)
(* joining_date, start_date and end_date hold ISO text.                    *)
(***************************************************************************)

\* a handler's outcome: the error kind ("OK" when it returns normally) and
\* the tables as committed
Outcome(err, emps, reqs) == [err |-> err, employees |-> emps, leave_requests |-> reqs]

\* has_overlap with strict comparisons: ranges sharing only a boundary day pass
has_overlap_strict(reqs, employee_id, start_date, end_date) ==
    \E i \in 1..Len(reqs) :
        /\ reqs[i].employee_id = employee_id
        /\ reqs[i].status \in {"PENDING", "APPROVED"}
        /\ ~TextLE(isoformat(end_date), reqs[i].start_date)
        /\ ~TextLE(reqs[i].end_date, isoformat(start_date))

\* has_overlap without the status filter: decided requests block too
has_overlap_any_status(reqs, employee_id, start_date, end_date) ==
    \E i \in 1..Len(reqs) :
        /\ reqs[i].employee_id = employee_id
        /\ TextLE(reqs[i].start_date, isoformat(end_date))
        /\ TextLE(isoformat(start_date), reqs[i].end_date)

\* SELECT 1 FROM leave_requests WHERE employee_id = ? AND status IN
\* ('PENDING','APPROVED') AND start_date <= ? AND end_date >= ? LIMIT 1
has_overlap(reqs, employee_id, start_date, end_date) ==
    \E i \in 1..Len(reqs) :
        /\ reqs[i].employee_id = employee_id
        /\ reqs[i].status \in {"PENDING", "APPROVED"}
        /\ TextLE(reqs[i].start_date, isoformat(end_date))
        /\ TextLE(isoformat(start_date), reqs[i].end_date)

\* add_employee on a table whose email column is not UNIQUE
add_employee_not_unique(emps, reqs, email, joining_date, leave_balance) ==
    Outcome("OK",
            Append(emps, [email |-> email,
                          joining_date |-> isoformat(joining_date),
                          leave_balance |-> leave_balance]),
            reqs)

\* INSERT INTO employees ...: email is UNIQUE, a duplicate raises
\* sqlite3.IntegrityError (DuplicateEmail) and nothing is committed
add_employee(emps, reqs, email, joining_date, leave_balance) ==
    IF \E i \in 1..Len(emps) : emps[i].email = email
    THEN Outcome("DuplicateEmail", emps, reqs)
    ELSE Outcome("OK",
                 Append(emps, [email |-> email,
                               joining_date |-> isoformat(joining_date),
                               leave_balance |-> leave_balance]),
                 reqs)

\* INSERT INTO leave_requests (...) VALUES (?, ?, ?, ?, 'PENDING')
InsertRequest(reqs, employee_id, start_date, end_date) ==
    Append(reqs, [employee_id |-> employee_id,
                  start_date |-> isoformat(start_date),
                  end_date |-> isoformat(end_date),
                  status |-> "PENDING"])

\* apply_leave without the test end_date < start_date: a reversed range
\* reaches the later checks
apply_leave_no_range_check(emps, reqs, employee_id, start_date, end_date) ==
    IF ~(employee_id \in 1..Len(emps))
    THEN Outcome("NotFound", emps, reqs)
    ELSE LET joining_date == fromisoformat(emps[employee_id].joining_date)
             balance == emps[employee_id].leave_balance
             req_days == days_inclusive(start_date, end_date)
         IN  IF start_date < joining_date
             THEN Outcome("BeforeJoining", emps, reqs)
             ELSE IF has_overlap(reqs, employee_id, start_date, end_date)
             THEN Outcome("OverlappingRequest", emps, reqs)
             ELSE IF req_days <= 0
             THEN Outcome("InvalidDuration", emps, reqs)
             ELSE IF req_days > balance
             THEN Outcome("InsufficientBalance", emps, reqs)
             ELSE Outcome("OK", emps,
                          InsertRequest(reqs, employee_id, start_date, end_date))

\* apply_leave with the balance check moved before the overlap check
apply_leave_balance_first(emps, reqs, employee_id, start_date, end_date) ==
    IF ~(employee_id \in 1..Len(emps))
    THEN Outcome("NotFound", emps, reqs)
    ELSE LET joining_date == fromisoformat(emps[employee_id].joining_date)
             balance == emps[employee_id].leave_balance
             req_days == days_inclusive(start_date, end_date)
         IN  IF end_date < start_date
             THEN Outcome("InvalidRange", emps, reqs)
             ELSE IF start_date < joining_date
             THEN Outcome("BeforeJoining", emps, reqs)
             ELSE IF req_days > balance
             THEN Outcome("InsufficientBalance", emps, reqs)
             ELSE IF has_overlap(reqs, employee_id, start_date, end_date)
             THEN Outcome("OverlappingRequest", emps, reqs)
             ELSE Outcome("OK", emps,
                          InsertRequest(reqs, employee_id, start_date, end_date))

\* apply_leave deducting the span from the balance at submission
apply_leave_deducting(emps, reqs, employee_id, start_date, end_date) ==
    IF ~(employee_id \in 1..Len(emps))
    THEN Outcome("NotFound", emps, reqs)
    ELSE LET joining_date == fromisoformat(emps[employee_id].joining_date)
             balance == emps[employee_id].leave_balance
             req_days == days_inclusive(start_date, end_date)
         IN  IF end_date < start_date
             THEN Outcome("InvalidRange", emps, reqs)
             ELSE IF start_date < joining_date
             THEN Outcome("BeforeJoining", emps, reqs)
             ELSE IF has_overlap(reqs, employee_id, start_date, end_date)
             THEN Outcome("OverlappingRequest", emps, reqs)
             ELSE IF req_days > balance
             THEN Outcome("InsufficientBalance", emps, reqs)
             ELSE Outcome("OK",
                          [emps EXCEPT ![employee_id].leave_balance = @ - req_days],
                          InsertRequest(reqs, employee_id, start_date, end_date))

\* apply_leave without the test start_date < joining_date
apply_leave_no_joining_check(emps, reqs, employee_id, start_date, end_date) ==
    IF ~(employee_id \in 1..Len(emps))
    THEN Outcome("NotFound", emps, reqs)
    ELSE LET balance == emps[employee_id].leave_balance
             req_days == days_inclusive(start_date, end_date)
         IN  IF end_date < start_date
             THEN Outcome("InvalidRange", emps, reqs)
             ELSE IF has_overlap(reqs, employee_id, start_date, end_date)
             THEN Outcome("OverlappingRequest", emps, reqs)
             ELSE IF req_days <= 0
             THEN Outcome("InvalidDuration", emps, reqs)
             ELSE IF req_days > balance
             THEN Outcome("InsufficientBalance", emps, reqs)
             ELSE Outcome("OK", emps,
                          InsertRequest(reqs, employee_id, start_date, end_date))

\* the ValueError raised by apply_leave, by the kind of section 7:
\*   "Employee not found"                          NotFound
\*   "End date cannot be before start date"        InvalidRange
\*   "Cannot apply for leave before joining date"  BeforeJoining
\*   "Overlapping leave request exists ..."        OverlappingRequest
\*   "Invalid duration"                            InvalidDuration
\*   "Insufficient leave balance"                  InsufficientBalance
apply_leave(emps, reqs, employee_id, start_date, end_date) ==
    IF ~(employee_id \in 1..Len(emps))
    THEN Outcome("NotFound", emps, reqs)
    ELSE LET joining_date == fromisoformat(emps[employee_id].joining_date)
             balance == emps[employee_id].leave_balance
             req_days == days_inclusive(start_date, end_date)
         IN  IF end_date < start_date
             THEN Outcome("InvalidRange", emps, reqs)
             ELSE IF start_date < joining_date
             THEN Outcome("BeforeJoining", emps, reqs)
             ELSE IF has_overlap(reqs, employee_id, start_date, end_date)
             THEN Outcome("OverlappingRequest", emps, reqs)
             ELSE IF req_days <= 0
             THEN Outcome("InvalidDuration", emps, reqs)
             ELSE IF req_days > balance
             THEN Outcome("InsufficientBalance", emps, reqs)
             ELSE Outcome("OK", emps,
                          InsertRequest(reqs, employee_id, start_date, end_date))

\* the UPDATE with the sign slipped: leave_balance + ?
DeductBalance_adding(emps, employee_id, needed) ==
    [emps EXCEPT ![employee_id].leave_balance = @ + needed]

\* UPDATE employees SET leave_balance = leave_balance - ? WHERE id = ?
DeductBalance(emps, employee_id, needed) ==
    [emps EXCEPT ![employee_id].leave_balance = @ - needed]

\* UPDATE leave_requests SET status = ? WHERE id = ?
SetStatus(reqs, leave_id, new_status) ==
    [reqs EXCEPT ![leave_id].status = new_status]

\* update_leave_status without the balance re-check at approval
update_leave_status_no_recheck(emps, reqs, leave_id, new_status) ==
    IF ~(leave_id \in 1..Len(reqs))
    THEN Outcome("NotFound", emps, reqs)
    ELSE LET employee_id == reqs[leave_id].employee_id
             needed == days_inclusive(fromisoformat(reqs[leave_id].start_date),
                                      fromisoformat(reqs[leave_id].end_date))
         IN  IF reqs[leave_id].status # "PENDING"
             THEN Outcome("NotPending", emps, reqs)
             ELSE IF new_status = "APPROVED"
             THEN Outcome("OK", DeductBalance(emps, employee_id, needed),
                          SetStatus(reqs, leave_id, new_status))
             ELSE Outcome("OK", emps, SetStatus(reqs, leave_id, new_status))

\* update_leave_status without the guard on the current status
update_leave_status_no_guard(emps, reqs, leave_id, new_status) ==
    IF ~(leave_id \in 1..Len(reqs))
    THEN Outcome("NotFound", emps, reqs)
    ELSE LET employee_id == reqs[leave_id].employee_id
             bal == emps[employee_id].leave_balance
             needed == days_inclusive(fromisoformat(reqs[leave_id].start_date),
                                      fromisoformat(reqs[leave_id].end_date))
         IN  IF new_status = "APPROVED"
             THEN IF needed > bal
                  THEN Outcome("InsufficientBalance", emps, reqs)
                  ELSE Outcome("OK", DeductBalance(emps, employee_id, needed),
                               SetStatus(reqs, leave_id, new_status))
             ELSE Outcome("OK", emps, SetStatus(reqs, leave_id, new_status))

\* update_leave_status deducting the span on every decision, not only on
\* APPROVED
update_leave_status_deduct_any(emps, reqs, leave_id, new_status) ==
    IF ~(leave_id \in 1..Len(reqs))
    THEN Outcome("NotFound", emps, reqs)
    ELSE LET employee_id == reqs[leave_id].employee_id
             bal == emps[employee_id].leave_balance
             needed == days_inclusive(fromisoformat(reqs[leave_id].start_date),
                                      fromisoformat(reqs[leave_id].end_date))
         IN  IF reqs[leave_id].status # "PENDING"
             THEN Outcome("NotPending", emps, reqs)
             ELSE IF new_status = "APPROVED" /\ needed > bal
             THEN Outcome("InsufficientBalance", emps, reqs)
             ELSE Outcome("OK", DeductBalance(emps, employee_id, needed),
                          SetStatus(reqs, leave_id, new_status))

\* update_leave_status deducting before it compares, and committing the
\* deduction when it raises
update_leave_status_deduct_then_check(emps, reqs, leave_id, new_status) ==
    IF ~(leave_id \in 1..Len(reqs))
    THEN Outcome("NotFound", emps, reqs)
    ELSE LET employee_id == reqs[leave_id].employee_id
             bal == emps[employee_id].leave_balance
             needed == days_inclusive(fromisoformat(reqs[leave_id].start_date),
                                      fromisoformat(reqs[leave_id].end_date))
         IN  IF reqs[leave_id].status # "PENDING"
             THEN Outcome("NotPending", emps, reqs)
             ELSE IF new_status = "APPROVED"
             THEN IF needed > bal
                  THEN Outcome("InsufficientBalance",
                               DeductBalance(emps, employee_id, needed), reqs)
                  ELSE Outcome("OK", DeductBalance(emps, employee_id, needed),
                               SetStatus(reqs, leave_id, new_status))
             ELSE Outcome("OK", emps, SetStatus(reqs, leave_id, new_status))

\* the ValueError raised by update_leave_status:
\*   "Leave request not found"                 NotFound
\*   "Only pending requests can be updated"    NotPending
\*   "Insufficient balance at approval time"   InsufficientBalance
update_leave_status(emps, reqs, leave_id, new_status) ==
    IF ~(leave_id \in 1..Len(reqs))
    THEN Outcome("NotFound", emps, reqs)
    ELSE LET employee_id == reqs[leave_id].employee_id
             start_date == fromisoformat(reqs[leave_id].start_date)
             end_date == fromisoformat(reqs[leave_id].end_date)
             curr_status == reqs[leave_id].status
         IN  IF curr_status # "PENDING"
             THEN Outcome("NotPending", emps, reqs)
             ELSE IF new_status = "APPROVED"
             THEN LET bal == emps[employee_id].leave_balance
                      needed == days_inclusive(start_date, end_date)
                  IN  IF needed > bal
                      THEN Outcome("InsufficientBalance", emps, reqs)
                      ELSE Outcome("OK",
                                   DeductBalance(emps, employee_id, needed),
                                   SetStatus(reqs, leave_id, new_status))
             ELSE Outcome("OK", emps, SetStatus(reqs, leave_id, new_status))

(***************************************************************************)
(* Spec: the operations executed one at a time.                            *)
(***************************************************************************)

\* no session of SpecConc is inside a call
Idle == [op |-> "idle"]

Procs == {1, 2}

Init ==
    /\ employees = <<>>
    /\ leave_requests = <<>>
    /\ pc = [p \in Procs |-> "idle"]
    /\ loc = [p \in Procs |-> Idle]

\* one call of add_employee, to its commit or its exception
AddEmployee ==
    \E email \in Emails, joining_date \in JoiningDates, leave_balance \in InitialBalances :
        LET r == add_employee(employees, leave_requests, email, joining_date, leave_balance)
        IN  /\ employees' = r.employees
            /\ leave_requests' = r.leave_requests
            /\ UNCHANGED <<pc, loc>>

\* one call of apply_leave, to its commit or its exception
ApplyLeave ==
    \E employee_id \in EmployeeIds, start_date \in Dates, end_date \in Dates :
        LET r == apply_leave(employees, leave_requests, employee_id, start_date, end_date)
        IN  /\ r.err = "OK" => Len(leave_requests) < MaxRequests
            /\ employees' = r.employees
            /\ leave_requests' = r.leave_requests
            /\ UNCHANGED <<pc, loc>>

\* one call of update_leave_status, to its commit or its exception
UpdateLeaveStatus ==
    \E leave_id \in LeaveIds, new_status \in NewStatuses :
        LET r == update_leave_status(employees, leave_requests, leave_id, new_status)
        IN  /\ employees' = r.employees
            /\ leave_requests' = r.leave_requests
            /\ UNCHANGED <<pc, loc>>

Next == AddEmployee \/ ApplyLeave \/ UpdateLeaveStatus

Spec == Init /\ [][Next]_vars

(***************************************************************************)
(* SpecConc: sessions calling the operations concurrently.                 *)
(*                                                                         *)
(* Every call opens its own connection (get_conn). The sqlite3 module, in  *)
(* its default isolation level, opens a transaction only before an INSERT  *)
(* or UPDATE: each SELECT of a handler runs in autocommit and sees the     *)
(* tables as committed at that moment, and "with conn" begins nothing, it  *)
(* only commits or rolls back on exit. A handler is therefore a sequence   *)
(* of atomic steps: each SELECT, then its writes and their commit (one     *)
(* write transaction; SQLite admits one writer at a time and readers see   *)
(* none of it before the commit). Steps of different sessions interleave.  *)
(*   pc[p]   where session p stands inside its call                        *)
(*   loc[p]  the arguments and locals of the call; at "done" its outcome   *)
(***************************************************************************)

\* arguments the concurrent sessions pass
\* <<start_date, end_date>>: a one-day and a two-day range that do not meet,
\* a range meeting both, and a reversed range
ConcRanges == {<<3, 3>>, <<4, 5>>, <<3, 4>>, <<4, 3>>}
ConcStatuses == {"APPROVED", "REJECTED"}

\* the outcome a finished call leaves: the call, its row id and its error kind
Done(call, err) ==
    [op |-> call.op, id |-> call.id, new_status |-> call.new_status, err |-> err]

\* apply_leave, lines 93-103: SELECT joining_date, leave_balance; the range
\* and joining-date checks on the fetched row
ApplySelectEmployee(p) ==
    /\ pc[p] = "idle"
    /\ \E employee_id \in EmployeeIds, range \in ConcRanges :
        LET start_date == range[1]
            end_date == range[2]
            call == [op |-> "apply_leave", id |-> employee_id, new_status |-> ""]
        IN  IF ~(employee_id \in 1..Len(employees))
            THEN /\ pc' = [pc EXCEPT ![p] = "done"]
                 /\ loc' = [loc EXCEPT ![p] = Done(call, "NotFound")]
            ELSE LET joining_date == fromisoformat(employees[employee_id].joining_date)
                     balance == employees[employee_id].leave_balance
                 IN  IF end_date < start_date
                     THEN /\ pc' = [pc EXCEPT ![p] = "done"]
                          /\ loc' = [loc EXCEPT ![p] = Done(call, "InvalidRange")]
                     ELSE IF start_date < joining_date
                     THEN /\ pc' = [pc EXCEPT ![p] = "done"]
                          /\ loc' = [loc EXCEPT ![p] = Done(call, "BeforeJoining")]
                     ELSE /\ pc' = [pc EXCEPT ![p] = "has_overlap"]
                          /\ loc' = [loc EXCEPT ![p] =
                                [op |-> "apply_leave", id |-> employee_id,
                                 new_status |-> "",
                                 start_date |-> start_date, end_date |-> end_date,
                                 balance |-> balance]]
    /\ UNCHANGED <<employees, leave_requests>>

\* apply_leave, lines 105-112: the SELECT of has_overlap, then the duration
\* and balance checks against the balance fetched at line 93
ApplyHasOverlap(p) ==
    /\ pc[p] = "has_overlap"
    /\ LET call == loc[p]
           req_days == days_inclusive(call.start_date, call.end_date)
       IN  IF has_overlap(leave_requests, call.id, call.start_date, call.end_date)
           THEN /\ pc' = [pc EXCEPT ![p] = "done"]
                /\ loc' = [loc EXCEPT ![p] = Done(call, "OverlappingRequest")]
           ELSE IF req_days <= 0
           THEN /\ pc' = [pc EXCEPT ![p] = "done"]
                /\ loc' = [loc EXCEPT ![p] = Done(call, "InvalidDuration")]
           ELSE IF req_days > call.balance
           THEN /\ pc' = [pc EXCEPT ![p] = "done"]
                /\ loc' = [loc EXCEPT ![p] = Done(call, "InsufficientBalance")]
           ELSE /\ pc' = [pc EXCEPT ![p] = "insert"]
                /\ loc' = loc
    /\ UNCHANGED <<employees, leave_requests>>

\* apply_leave, lines 114-117: the INSERT and the commit of "with conn"
ApplyInsert(p) ==
    /\ pc[p] = "insert"
    /\ Len(leave_requests) < MaxRequests
    /\ leave_requests' = InsertRequest(leave_requests, loc[p].id,
                                       loc[p].start_date, loc[p].end_date)
    /\ pc' = [pc EXCEPT ![p] = "done"]
    /\ loc' = [loc EXCEPT ![p] = Done(loc[p], "OK")]
    /\ UNCHANGED employees

\* update_leave_status, lines 137-146: SELECT of the request, the status guard
UpdateSelectRequest(p) ==
    /\ pc[p] = "idle"
    /\ \E leave_id \in LeaveIds, new_status \in ConcStatuses :
        LET call == [op |-> "update_leave_status", id |-> leave_id,
                     new_status |-> new_status]
        IN  IF ~(leave_id \in 1..Len(leave_requests))
            THEN /\ pc' = [pc EXCEPT ![p] = "done"]
                 /\ loc' = [loc EXCEPT ![p] = Done(call, "NotFound")]
            ELSE IF leave_requests[leave_id].status # "PENDING"
            THEN /\ pc' = [pc EXCEPT ![p] = "done"]
                 /\ loc' = [loc EXCEPT ![p] = Done(call, "NotPending")]
            ELSE /\ pc' = [pc EXCEPT ![p] =
                        IF new_status = "APPROVED" THEN "select_balance" ELSE "update"]
                 /\ loc' = [loc EXCEPT ![p] =
                        [op |-> "update_leave_status", id |-> leave_id,
                         new_status |-> new_status,
                         employee_id |-> leave_requests[leave_id].employee_id,
                         needed |-> days_inclusive(
                            fromisoformat(leave_requests[leave_id].start_date),
                            fromisoformat(leave_requests[leave_id].end_date))]]
    /\ UNCHANGED <<employees, leave_requests>>

\* update_leave_status, lines 149-153: SELECT leave_balance, needed > bal
UpdateSelectBalance(p) ==
    /\ pc[p] = "select_balance"
    /\ LET bal == employees[loc[p].employee_id].leave_balance
       IN  IF loc[p].needed > bal
           THEN /\ pc' = [pc EXCEPT ![p] = "done"]
                /\ loc' = [loc EXCEPT ![p] = Done(loc[p], "InsufficientBalance")]
           ELSE /\ pc' = [pc EXCEPT ![p] = "update"]
                /\ loc' = loc
    /\ UNCHANGED <<employees, leave_requests>>

\* update_leave_status, lines 154-156: UPDATE employees (when approving),
\* UPDATE leave_requests, and the commit of "with conn"
UpdateWrite(p) ==
    /\ pc[p] = "update"
    /\ employees' = IF loc[p].new_status = "APPROVED"
                    THEN DeductBalance(employees, loc[p].employee_id, loc[p].needed)
                    ELSE employees
    /\ leave_requests' = SetStatus(leave_requests, loc[p].id, loc[p].new_status)
    /\ pc' = [pc EXCEPT ![p] = "done"]
    /\ loc' = [loc EXCEPT ![p] = Done(loc[p], "OK")]

\* the call returns or raises to the form handler; the session is free again
Return(p) ==
    /\ pc[p] = "done"
    /\ pc' = [pc EXCEPT ![p] = "idle"]
    /\ loc' = [loc EXCEPT ![p] = Idle]
    /\ UNCHANGED <<employees, leave_requests>>

NextConc ==
    \/ AddEmployee
    \/ \E p \in Procs :
        \/ ApplySelectEmployee(p)
        \/ ApplyHasOverlap(p)
        \/ ApplyInsert(p)
        \/ UpdateSelectRequest(p)
        \/ UpdateSelectBalance(p)
        \/ UpdateWrite(p)
        \/ Return(p)

SpecConc == Init /\ [][NextConc]_vars

(***************************************************************************)
(* Vocabulary of the properties: dates as day ordinals.                    *)
(***************************************************************************)
EmployeeExists(e) == e \in 1..Len(employees)
RequestExists(i) == i \in 1..Len(leave_requests)
StartOf(i) == fromisoformat(leave_requests[i].start_date)
EndOf(i) == fromisoformat(leave_requests[i].end_date)
Span(i) == EndOf(i) - StartOf(i) + 1
OwnerOf(i) == leave_requests[i].employee_id
StatusOf(i) == leave_requests[i].status
BalanceOf(e) == employees[e].leave_balance
Blocking(i) == StatusOf(i) \in {"PENDING", "APPROVED"}
Terminal(i) == StatusOf(i) \in {"APPROVED", "REJECTED"}

\* the outcome of deciding request i in the current state
Decide(i, new_status) == update_leave_status(employees, leave_requests, i, new_status)
\* the outcome of submitting [s, t] for employee e in the current state
Submit(e, s, t) == apply_leave(employees, leave_requests, e, s, t)

(***************************************************************************)
(* C1: every employee's leave_balance is >= 0 in every reachable state,    *)
(* for every initial balance add_employee accepted.                        *)
(* add_employee stores int(leave_balance) unchecked: a negative initial    *)
(* balance is committed.                                                   *)
(***************************************************************************)
C1_BalanceNonNegative ==
    \A e \in 1..Len(employees) : BalanceOf(e) >= 0

(***************************************************************************)
(* C2: any two distinct PENDING or APPROVED requests of one employee have  *)
(* disjoint date ranges under inclusive bounds.                            *)
(***************************************************************************)
C2_NoOverlap ==
    \A i, j \in 1..Len(leave_requests) :
        (i # j /\ OwnerOf(i) = OwnerOf(j) /\ Blocking(i) /\ Blocking(j))
            => ~(StartOf(i) <= EndOf(j) /\ EndOf(i) >= StartOf(j))

\* two blocking requests of one employee on adjacent days, one of them approved
C2_Witness ==
    \E i, j \in 1..Len(leave_requests) :
        /\ i # j /\ OwnerOf(i) = OwnerOf(j)
        /\ StatusOf(i) = "APPROVED" /\ StatusOf(j) = "PENDING"
        /\ EndOf(i) + 1 = StartOf(j)

(***************************************************************************)
(* C3: approving a PENDING request whose inclusive span is <= the          *)
(* employee's current balance decrements that balance by exactly the span  *)
(* and sets the status to APPROVED, nothing else changing; an approval     *)
(* that fails leaves balances and statuses as they were.                   *)
(***************************************************************************)
C3_ApproveAtomic ==
    \A i \in LeaveIds :
        LET r == Decide(i, "APPROVED")
        IN  /\ (RequestExists(i) /\ StatusOf(i) = "PENDING"
                    /\ Span(i) <= BalanceOf(OwnerOf(i)))
                => /\ r.err = "OK"
                   /\ r.employees =
                        [employees EXCEPT ![OwnerOf(i)].leave_balance = @ - Span(i)]
                   /\ r.leave_requests =
                        [leave_requests EXCEPT ![i].status = "APPROVED"]
            /\ r.err # "OK"
                => r.employees = employees /\ r.leave_requests = leave_requests

\* an approval has been committed: the request is APPROVED and the balance
\* of its employee is the initial 2 less the span; another approval would fail
C3_Witness ==
    \E i, j \in 1..Len(leave_requests) :
        /\ StatusOf(i) = "APPROVED"
        /\ BalanceOf(OwnerOf(i)) = 2 - Span(i)
        /\ StatusOf(j) = "PENDING"
        /\ Decide(j, "APPROVED").err = "InsufficientBalance"

(***************************************************************************)
(* C4: the approval-time check uses the balance at the moment of the       *)
(* decision: approving a PENDING request fails with InsufficientBalance    *)
(* exactly when its span exceeds the current balance; of two PENDING       *)
(* requests that each fit the balance but not together, approving either   *)
(* succeeds and approving the other afterwards fails.                      *)
(***************************************************************************)
C4_ApprovalUsesCurrentBalance ==
    \A i \in 1..Len(leave_requests) :
        StatusOf(i) = "PENDING"
            => /\ (Decide(i, "APPROVED").err = "InsufficientBalance")
                    <=> (Span(i) > BalanceOf(OwnerOf(i)))
               /\ \A j \in 1..Len(leave_requests) :
                    (/\ j # i /\ StatusOf(j) = "PENDING" /\ OwnerOf(j) = OwnerOf(i)
                     /\ Span(i) <= BalanceOf(OwnerOf(i))
                     /\ Span(j) <= BalanceOf(OwnerOf(i))
                     /\ Span(i) + Span(j) > BalanceOf(OwnerOf(i)))
                    => LET first == Decide(i, "APPROVED")
                           second == update_leave_status(first.employees,
                                         first.leave_requests, j, "APPROVED")
                       IN  /\ first.err = "OK"
                           /\ first.employees[OwnerOf(i)].leave_balance
                                = BalanceOf(OwnerOf(i)) - Span(i)
                           /\ second.err = "InsufficientBalance"

\* the scenario after its first approval: both requests fitted the balance
\* at submission, one is APPROVED, the other no longer fits what is left
C4_Witness ==
    \E i, j \in 1..Len(leave_requests) :
        /\ i # j /\ OwnerOf(i) = OwnerOf(j)
        /\ StatusOf(i) = "APPROVED" /\ StatusOf(j) = "PENDING"
        /\ Span(j) <= BalanceOf(OwnerOf(j)) + Span(i)
        /\ Span(j) > BalanceOf(OwnerOf(j))
        /\ BalanceOf(OwnerOf(j)) >= 0

(***************************************************************************)
(* C5: update_leave_status on an APPROVED or REJECTED request fails with   *)
(* NotPending whatever the decision and changes no status and no balance;  *)
(* a request that is APPROVED or REJECTED keeps that status in every step. *)
(***************************************************************************)
C5_DecidedIsFinal ==
    /\ [](\A i \in 1..Len(leave_requests), new_status \in NewStatuses :
            Terminal(i)
                => LET r == Decide(i, new_status)
                   IN  /\ r.err = "NotPending"
                       /\ r.employees = employees
                       /\ r.leave_requests = leave_requests)
    /\ [][\A i \in 1..Len(leave_requests) :
            Terminal(i) => /\ i \in 1..Len(leave_requests')
                           /\ leave_requests'[i].status = StatusOf(i)]_vars

\* both terminal statuses are present, on a full table, with a balance spent
C5_Witness ==
    \E i, j \in 1..Len(leave_requests) :
        /\ StatusOf(i) = "APPROVED" /\ StatusOf(j) = "REJECTED"
        /\ Decide(i, "REJECTED").err = "NotPending"
        /\ Decide(j, "APPROVED").err = "NotPending"
        /\ BalanceOf(OwnerOf(i)) = 2 - Span(i)

(***************************************************************************)
(* C8 as stated: apply_leave with end_date < start_date fails with         *)
(* InvalidRange for every employee id, existing or not.                    *)
(***************************************************************************)
C8_InvalidRangeAlways ==
    \A e \in EmployeeIds, s \in Dates, t \in Dates :
        t < s => Submit(e, s, t).err = "InvalidRange"

(***************************************************************************)
(* C8 amended: apply_leave with end_date < start_date always fails, with   *)
(* InvalidRange when the employee exists and with NotFound when it does    *)
(* not, in every state of the store.                                       *)
(***************************************************************************)
C8_InvalidRangeForExisting ==
    \A e \in EmployeeIds, s \in Dates, t \in Dates :
        t < s => Submit(e, s, t).err =
                    IF EmployeeExists(e) THEN "InvalidRange" ELSE "NotFound"

\* a reversed range that an existing request covers, for an employee whose
\* balance is spent, is refused as InvalidRange
C8_Witness ==
    \E i \in 1..Len(leave_requests), s \in Dates, t \in Dates :
        /\ t < s /\ StartOf(i) <= t /\ s <= EndOf(i)
        /\ StatusOf(i) = "APPROVED" /\ BalanceOf(OwnerOf(i)) = 0
        /\ Submit(OwnerOf(i), s, t).err = "InvalidRange"

(***************************************************************************)
(* C9: apply_leave reports the first failing precondition in the order     *)
(* NotFound, InvalidRange, BeforeJoining, OverlappingRequest,              *)
(* InsufficientBalance, and succeeds when none fails.                      *)
(***************************************************************************)
JoinedOn(e) == fromisoformat(employees[e].joining_date)
Overlapped(e, s, t) ==
    \E i \in 1..Len(leave_requests) :
        OwnerOf(i) = e /\ Blocking(i) /\ StartOf(i) <= t /\ EndOf(i) >= s

FirstFailure(e, s, t) ==
    CASE ~EmployeeExists(e)           -> "NotFound"
      [] OTHER -> CASE t < s          -> "InvalidRange"
      [] OTHER -> CASE s < JoinedOn(e) -> "BeforeJoining"
      [] OTHER -> CASE Overlapped(e, s, t) -> "OverlappingRequest"
      [] OTHER -> CASE t - s + 1 > BalanceOf(e) -> "InsufficientBalance"
      [] OTHER -> "OK"

C9_ErrorOrder ==
    \A e \in EmployeeIds, s \in Dates, t \in Dates :
        Submit(e, s, t).err = FirstFailure(e, s, t)

\* an input that overlaps a PENDING request and exceeds the balance is
\* refused as OverlappingRequest; one that is before joining, overlaps and
\* exceeds the balance is refused as BeforeJoining
C9_Witness ==
    \E e \in 1..Len(employees), s \in Dates, t \in Dates, s2 \in Dates :
        /\ s <= t /\ s >= JoinedOn(e) /\ s2 < JoinedOn(e)
        /\ \E i \in 1..Len(leave_requests) :
             OwnerOf(i) = e /\ StatusOf(i) = "PENDING"
                /\ StartOf(i) <= t /\ EndOf(i) >= s
        /\ t - s + 1 > BalanceOf(e) /\ BalanceOf(e) >= 0
        /\ Submit(e, s, t).err = "OverlappingRequest"
        /\ Submit(e, s2, t).err = "BeforeJoining"

(***************************************************************************)
(* C10: a successful apply_leave adds exactly one request, with status     *)
(* PENDING and the submitted employee and dates, and leaves every balance  *)
(* and every other request unchanged.                                      *)
(***************************************************************************)
C10_SubmitFrame ==
    \A e \in EmployeeIds, s \in Dates, t \in Dates :
        LET r == Submit(e, s, t)
            n == Len(leave_requests)
        IN  r.err = "OK"
                => /\ r.employees = employees
                   /\ Len(r.leave_requests) = n + 1
                   /\ \A i \in 1..n : r.leave_requests[i] = leave_requests[i]
                   /\ r.leave_requests[n + 1].status = "PENDING"
                   /\ r.leave_requests[n + 1].employee_id = e
                   /\ fromisoformat(r.leave_requests[n + 1].start_date) = s
                   /\ fromisoformat(r.leave_requests[n + 1].end_date) = t

\* a submission was committed after an approval: the newest request is
\* PENDING, an older one is APPROVED, and the balance shows the approval only
C10_Witness ==
    \E i \in 1..Len(leave_requests) :
        /\ i < Len(leave_requests)
        /\ StatusOf(i) = "APPROVED"
        /\ StatusOf(Len(leave_requests)) = "PENDING"
        /\ OwnerOf(Len(leave_requests)) = OwnerOf(i)
        /\ BalanceOf(OwnerOf(i)) = 2 - Span(i)

(***************************************************************************)
(* C6: two concurrent update_leave_status(APPROVED) calls on separate      *)
(* connections behave as in some serial order: of two approvals of the     *)
(* same PENDING request at most one succeeds, and after a successful       *)
(* approval the employee's balance is not negative.                        *)
(* In a serial order the second approval of a request fails NotPending,    *)
(* and an approval succeeds only when its span fits the balance it         *)
(* deducts from.                                                           *)
(***************************************************************************)
Approved(p) ==
    /\ pc[p] = "done"
    /\ loc[p].op = "update_leave_status"
    /\ loc[p].new_status = "APPROVED"
    /\ loc[p].err = "OK"

C6_ConcurrentApprovalsSerial ==
    \A p, q \in Procs :
        Approved(p)
            => /\ BalanceOf(OwnerOf(loc[p].id)) >= 0
               /\ (q # p /\ Approved(q)) => loc[q].id # loc[p].id

(***************************************************************************)
(* C7: apply_leave's check-then-insert is atomic against concurrent        *)
(* callers: no reachable state holds two PENDING or APPROVED requests of   *)
(* one employee that cover the same day.                                   *)
(***************************************************************************)
C7_ConcurrentSubmitAtomic ==
    \A e \in EmployeeIds, d \in Dates :
        Cardinality({i \in 1..Len(leave_requests) :
                        /\ OwnerOf(i) = e /\ Blocking(i)
                        /\ StartOf(i) <= d /\ d <= EndOf(i)}) <= 1

(***************************************************************************)
(* C11: update_leave_status(id, REJECTED) on a PENDING request sets that   *)
(* request's status to REJECTED and leaves every employee's leave_balance  *)
(* (and every other request) unchanged, whatever the span and the balance. *)
(***************************************************************************)
C11_RejectFrame ==
    \A i \in 1..Len(leave_requests) :
        StatusOf(i) = "PENDING"
            => LET r == Decide(i, "REJECTED")
               IN  /\ r.err = "OK"
                   /\ r.employees = employees
                   /\ r.leave_requests =
                        [leave_requests EXCEPT ![i].status = "REJECTED"]

\* a rejection was committed for a request whose span exceeds what the
\* employee has left after an approval; the balance shows the approval only
C11_Witness ==
    \E i, j \in 1..Len(leave_requests) :
        /\ OwnerOf(i) = OwnerOf(j)
        /\ StatusOf(i) = "APPROVED" /\ StatusOf(j) = "REJECTED"
        /\ Span(j) > BalanceOf(OwnerOf(j))
        /\ BalanceOf(OwnerOf(j)) = 2 - Span(i)

(***************************************************************************)
(* C12: every add_employee, apply_leave or update_leave_status call that   *)
(* ends in a validation failure leaves the employees, their balances, the  *)
(* requests and their statuses exactly as before the call.                 *)
(***************************************************************************)
Register(email, joining_date, leave_balance) ==
    add_employee(employees, leave_requests, email, joining_date, leave_balance)

Untouched(r) == r.employees = employees /\ r.leave_requests = leave_requests

C12_FailureLeavesStore ==
    /\ \A email \in Emails, j \in JoiningDates, b \in InitialBalances :
         Register(email, j, b).err # "OK" => Untouched(Register(email, j, b))
    /\ \A e \in EmployeeIds, s \in Dates, t \in Dates :
         Submit(e, s, t).err # "OK" => Untouched(Submit(e, s, t))
    /\ \A i \in LeaveIds, new_status \in NewStatuses :
         Decide(i, new_status).err # "OK" => Untouched(Decide(i, new_status))

\* a store on which calls fail with each of the seven error kinds
C12_Witness ==
    LET Errors ==
            {Register(email, j, b).err :
                email \in Emails, j \in JoiningDates, b \in InitialBalances}
            \cup {Submit(e, s, t).err : e \in EmployeeIds, s \in Dates, t \in Dates}
            \cup {Decide(i, n).err : i \in LeaveIds, n \in NewStatuses}
    IN  /\ {"NotFound", "DuplicateEmail", "InvalidRange", "BeforeJoining",
            "OverlappingRequest", "InsufficientBalance", "NotPending"}
                \subseteq Errors
        /\ \E i \in 1..Len(leave_requests) :
             StatusOf(i) = "PENDING"
                /\ Decide(i, "APPROVED").err = "InsufficientBalance"

(***************************************************************************)
(* C13: add_employee with an email an existing employee holds fails with   *)
(* DuplicateEmail and creates no employee; in every reachable state no two *)
(* employees share an email.                                               *)
(***************************************************************************)
C13_EmailUnique ==
    /\ \A i, j \in 1..Len(employees) :
         i # j => employees[i].email # employees[j].email
    /\ \A i \in 1..Len(employees), j \in JoiningDates, b \in InitialBalances :
         LET r == Register(employees[i].email, j, b)
         IN  r.err = "DuplicateEmail" /\ r.employees = employees

\* two employees are registered, and registering either email again with
\* another balance is refused
C13_Witness ==
    /\ Len(employees) = 2
    /\ BalanceOf(1) # BalanceOf(2)
    /\ \A i \in 1..Len(employees) :
         \E j \in JoiningDates, b \in InitialBalances :
            b # BalanceOf(i) /\ Register(employees[i].email, j, b).err = "DuplicateEmail"

(***************************************************************************)
(* C14: in every reachable state every request's status is one of PENDING, *)
(* APPROVED, REJECTED, whatever new_status a caller passes to              *)
(* update_leave_status, and a PENDING request only moves to APPROVED or    *)
(* REJECTED.                                                               *)
(* update_leave_status writes new_status as given: any string becomes the  *)
(* status of a PENDING request.                                            *)
(***************************************************************************)
C14_StatusDomain ==
    /\ [](\A i \in 1..Len(leave_requests) :
            StatusOf(i) \in {"PENDING", "APPROVED", "REJECTED"})
    /\ [][\A i \in 1..Len(leave_requests) :
            (StatusOf(i) = "PENDING" /\ leave_requests'[i].status # "PENDING")
                => leave_requests'[i].status \in {"APPROVED", "REJECTED"}]_vars

(***************************************************************************)
(* C15: every stored request has end_date >= start_date and start_date >=  *)
(* the joining_date of its employee, and its employee exists.              *)
(***************************************************************************)
C15_RequestWellFormed ==
    \A i \in 1..Len(leave_requests) :
        /\ EmployeeExists(OwnerOf(i))
        /\ EndOf(i) >= StartOf(i)
        /\ StartOf(i) >= JoinedOn(OwnerOf(i))

\* requests at the edges of what is admitted: a one-day request on the
\* joining date, and a request of the second employee spanning two months
C15_Witness ==
    \E i, j \in 1..Len(leave_requests) :
        /\ StartOf(i) = JoinedOn(OwnerOf(i)) /\ EndOf(i) = StartOf(i)
        /\ OwnerOf(j) = 2 /\ OwnerOf(i) = 1
        /\ leave_requests[j].start_date[1] < leave_requests[j].end_date[1]
        /\ leave_requests[j].start_date[2] > leave_requests[j].end_date[2]

(***************************************************************************)
(* C16: has_overlap is true exactly when the employee has a PENDING or     *)
(* APPROVED request with existing.start <= end_date and existing.end >=    *)
(* start_date; an employee with no PENDING or APPROVED request is never    *)
(* refused with OverlappingRequest, whatever the other employees hold; and *)
(* in the state a rejection leaves, apply_leave over the rejected          *)
(* request's dates for its employee is not refused with OverlappingRequest.*)
(***************************************************************************)
C16_OnlyBlockingOverlap ==
    /\ [](/\ \A e \in EmployeeIds, s \in Dates, t \in Dates :
               has_overlap(leave_requests, e, s, t) <=> Overlapped(e, s, t)
          /\ \A e \in EmployeeIds, s \in Dates, t \in Dates :
               (\A i \in 1..Len(leave_requests) : OwnerOf(i) = e => ~Blocking(i))
                  => Submit(e, s, t).err # "OverlappingRequest")
    /\ [][\A i \in 1..Len(leave_requests) :
            (StatusOf(i) = "PENDING" /\ leave_requests'[i].status = "REJECTED")
                => apply_leave(employees', leave_requests',
                               OwnerOf(i), StartOf(i), EndOf(i)).err
                        # "OverlappingRequest"]_vars

\* employee 1 was rejected for dates that employee 2 holds as PENDING, and
\* submitting the same dates for employee 1 again is accepted
C16_Witness ==
    \E i, j \in 1..Len(leave_requests) :
        /\ OwnerOf(i) = 1 /\ StatusOf(i) = "REJECTED"
        /\ OwnerOf(j) = 2 /\ StatusOf(j) = "PENDING"
        /\ StartOf(j) <= EndOf(i) /\ EndOf(j) >= StartOf(i)
        /\ Submit(1, StartOf(i), EndOf(i)).err = "OK"
        /\ Submit(2, StartOf(i), EndOf(i)).err = "OverlappingRequest"

(***************************************************************************)
(* C17: balance conservation. For every employee leave_balance equals the  *)
(* initial balance given at registration minus the sum of the inclusive    *)
(* spans of the employee's APPROVED requests: an employee is registered    *)
(* with no request, every step keeps leave_balance plus the approved days  *)
(* constant, and no step increases a balance.                              *)
(***************************************************************************)
RECURSIVE ApprovedDaysIn(_, _, _)
\* the inclusive spans of the APPROVED requests of employee e among reqs[1..n]
ApprovedDaysIn(reqs, e, n) ==
    IF n = 0 THEN 0
    ELSE ApprovedDaysIn(reqs, e, n - 1)
            + (IF reqs[n].employee_id = e /\ reqs[n].status = "APPROVED"
               THEN fromisoformat(reqs[n].end_date)
                        - fromisoformat(reqs[n].start_date) + 1
               ELSE 0)

ApprovedDays(e) == ApprovedDaysIn(leave_requests, e, Len(leave_requests))

C17_BalanceConservation ==
    /\ [](\A e \in 1..Len(employees) :
            BalanceOf(e) + ApprovedDays(e) \in InitialBalances)
    /\ [][\A e \in 1..Len(employees') :
            IF e \in 1..Len(employees)
            THEN /\ employees'[e].leave_balance <= BalanceOf(e)
                 /\ employees'[e].leave_balance
                      + ApprovedDaysIn(leave_requests', e, Len(leave_requests'))
                      = BalanceOf(e) + ApprovedDays(e)
            ELSE /\ employees'[e].leave_balance \in InitialBalances
                 /\ ApprovedDaysIn(leave_requests', e, Len(leave_requests')) = 0
         ]_vars

\* an employee registered with 2 days holds an APPROVED two-day request and
\* a decided request that cost nothing; the balance is 0
C17_Witness ==
    \E i, j \in 1..Len(leave_requests) :
        /\ OwnerOf(i) = OwnerOf(j)
        /\ StatusOf(i) = "APPROVED" /\ Span(i) = 2
        /\ StatusOf(j) \in {"REJECTED", "CANCELLED"}
        /\ BalanceOf(OwnerOf(i)) = 0
        /\ ApprovedDays(OwnerOf(i)) = 2

(***************************************************************************)
(* C18: when apply_leave runs concurrently with an approval for the same   *)
(* employee, the submission is accepted only if its inclusive span is <=   *)
(* the employee's balance in the state in which the request is inserted.   *)
(* apply_leave compares with the balance it fetched at its first SELECT;   *)
(* an approval committed since then is not seen.                           *)
(***************************************************************************)
C18_SubmitSeesCurrentBalance ==
    [][\A p \in Procs :
        (pc[p] = "insert" /\ pc'[p] = "done")
            => (loc[p].end_date - loc[p].start_date) + 1 <= BalanceOf(loc[p].id)
      ]_vars

====
